---- MODULE Spec2Model ----
(***************************************************************************)
(* Reference-counted handles of arrow-glib: GArrowTable (table.cpp) and    *)
(* the leaf data type constructor garrow_int8_data_type_new.               *)
(*                                                                         *)
(* A native value is an object owned through std::shared_ptr: it has a use *)
(* count and its destructor runs when the count reaches zero.  A handle is *)
(* a GObject whose private data holds one std::shared_ptr.                 *)
(***************************************************************************)
EXTENDS Integers, Sequences, FiniteSets, TLC

MaxNatives == 4     \* native values ever created
MaxHandles == 4     \* GObjects ever created
MaxCols    == 2     \* longest GList passed to garrow_table_new
MaxExt     == 1     \* shared_ptr copies native-side callers keep per value

PROP_0     == 0
PROP_TABLE == 1
PROP_OTHER == 2     \* an id the class never installed

Empty   == 0        \* an empty std::shared_ptr (nullptr)
NullPtr == 0 - 1    \* a NULL gpointer where a std::shared_ptr * is expected

Names == {"t"}

VARIABLES
  nat,        \* Seq of native values: [kind, count, dtor, name, schema, cols, rows]
  hnd,        \* Seq of GObjects: [kind, state, priv] and what is recorded of
              \* their history: made, input, released, borrowed, from
  ext,        \* Seq: shared_ptr copies held by native-side callers, per value
  log,        \* the last warning GLib printed, "" before the first
  crashed     \* the process died on a fault

vars == <<nat, hnd, ext, log, crashed>>

Natives == 1..Len(nat)
Handles == 1..Len(hnd)

\* G_OBJECT_WARN_INVALID_PROPERTY_ID, and GObject's own refusals
InvalidPropertyId == "invalid property id"
NoSuchProperty    == "no property of that name"
NotWritable       == "property is not writable"
ConstructOnly     == "construct property cannot be set after construction"

(* ---------------- std::shared_ptr ---------------- *)

\* copy construction / copy assignment source side: use count + 1
AddRef(n, v) ==
  IF v = Empty THEN n ELSE [n EXCEPT ![v].count = @ + 1]

RECURSIVE Release(_, _)
RECURSIVE ReleaseAll(_, _)
\* destruction or reset of one shared_ptr: use count - 1; at zero the value's
\* destructor runs and destroys the shared_ptr members of the value
Release(n, v) ==
  IF v = Empty THEN n
  ELSE LET n1 == [n EXCEPT ![v].count = @ - 1]
       IN  IF n1[v].count > 0 THEN n1
           ELSE LET n2 == [n1 EXCEPT ![v].dtor = @ + 1]
                IN  ReleaseAll(Release(n2, n2[v].schema), n2[v].cols)

ReleaseAll(n, s) ==
  IF s = <<>> THEN n ELSE ReleaseAll(Release(n, Head(s)), Tail(s))

RECURSIVE AddRefAll(_, _)
AddRefAll(n, s) ==
  IF s = <<>> THEN n ELSE AddRefAll(AddRef(n, Head(s)), Tail(s))

\* std::make_shared: a new value whose only owner is the returned shared_ptr
NewNative(kind, name, schema, cols, rows) ==
  [kind |-> kind, count |-> 1, dtor |-> 0, name |-> name,
   schema |-> schema, cols |-> cols, rows |-> rows]

\* a GObject after instance init: the private shared_ptr is empty.
\* made: the value construction injected; input: the raw columns of the GList
\* garrow_table_new was given; released: references dispose released;
\* runs: times dispose ran;
\* borrowed: the owner of the string garrow_table_get_name handed out;
\* via: the call that made the handle; from: the table it was called on;
\* arg: the index it was called with
NewObject(kind) ==
  [kind |-> kind, state |-> "live", priv |-> Empty, made |-> Empty,
   input |-> <<>>, released |-> 0, runs |-> 0, borrowed |-> Empty,
   via |-> "", from |-> 0, arg |-> 0]


Result(n, hs, ret, warn, crash) ==
  [nat |-> n, hnd |-> hs, ret |-> ret, warn |-> warn, crash |-> crash]

(* ---------------- GObject instances of the other wrapper classes ------- *)

\* g_object_new of a wrapper class with its construct-only pointer property:
\* the class stores a copy of the std::shared_ptr the pointer designates.
\* Reading through a NULL pointer faults.
object_new_raw(n, hs, kind, ptr) ==
  LET hs1 == Append(hs, NewObject(kind))
      h   == Len(hs1)
  IN  IF ptr = NullPtr
      THEN Result(n, hs, 0, "", TRUE)
      ELSE Result(AddRef(n, ptr), [hs1 EXCEPT ![h].priv = ptr], h, "", FALSE)

\* dispose of the other wrapper classes: the stored shared_ptr is reset
object_dispose(n, hs, object) ==
  Result(Release(n, hs[object].priv), [hs EXCEPT ![object].priv = Empty],
         0, "", FALSE)

\* garrow_column_get_raw / garrow_schema_get_raw: a copy of the stored pointer
object_get_raw(hs, object) == hs[object].priv

(* ---------------- table.cpp ---------------- *)

\* "table" installed writable at any time
TableParamFlags_writable == {"WRITABLE"}

\* the flags "table" is installed with
TableParamFlags == {"WRITABLE", "CONSTRUCT_ONLY"}

\* dispose that destroys the stored pointer without emptying it
garrow_table_dispose_keeps(n, hs, object) ==
  Result(Release(n, hs[object].priv), hs, 0, "", FALSE)

\* dispose that only chains up
garrow_table_dispose_chains(n, hs, object) ==
  Result(n, hs, 0, "", FALSE)

garrow_table_dispose(n, hs, object) ==
  Result(Release(n, hs[object].priv), [hs EXCEPT ![object].priv = Empty],
         0, "", FALSE)

\* set_property that stores the native address without sharing ownership
garrow_table_set_property_borrows(n, hs, object, prop_id, value) ==
  IF prop_id = PROP_TABLE
  THEN IF value = NullPtr
       THEN Result(n, hs, 0, "", TRUE)
       ELSE Result(Release(n, hs[object].priv),
                   [hs EXCEPT ![object].priv = value], 0, "", FALSE)
  ELSE Result(n, hs, 0, InvalidPropertyId, FALSE)

\* set_property that keeps a second copy of the pointer it stores
garrow_table_set_property_twice(n, hs, object, prop_id, value) ==
  IF prop_id = PROP_TABLE
  THEN IF value = NullPtr
       THEN Result(n, hs, 0, "", TRUE)
       ELSE Result(Release(AddRef(AddRef(n, value), value), hs[object].priv),
                   [hs EXCEPT ![object].priv = value], 0, "", FALSE)
  ELSE Result(n, hs, 0, InvalidPropertyId, FALSE)

\* set_property whose unknown-id branch falls into the assignment
garrow_table_set_property_falls(n, hs, object, prop_id, value) ==
  IF value = NullPtr
  THEN Result(n, hs, 0, "", TRUE)
  ELSE Result(Release(AddRef(n, value), hs[object].priv),
              [hs EXCEPT ![object].priv = value],
              0, IF prop_id = PROP_TABLE THEN "" ELSE InvalidPropertyId, FALSE)

\* value is the gpointer of the GValue: NullPtr, or the address of a
\* std::shared_ptr that is Empty or owns a native value.  The assignment
\* copies the designated shared_ptr and releases the one stored before.
garrow_table_set_property(n, hs, object, prop_id, value) ==
  IF prop_id = PROP_TABLE
  THEN IF value = NullPtr
       THEN Result(n, hs, 0, "", TRUE)
       ELSE Result(Release(AddRef(n, value), hs[object].priv),
                   [hs EXCEPT ![object].priv = value], 0, "", FALSE)
  ELSE Result(n, hs, 0, InvalidPropertyId, FALSE)

garrow_table_get_property(n, hs, object, prop_id) ==
  Result(n, hs, 0, InvalidPropertyId, FALSE)

garrow_table_get_raw(hs, table) == hs[table].priv

\* g_object_new(GARROW_TYPE_TABLE, "table", arrow_table, NULL): the instance
\* is allocated with empty private data, then the construct property is set
garrow_table_new_raw(n, hs, arrow_table) ==
  LET hs1 == Append(hs, NewObject("table"))
      h   == Len(hs1)
      r   == garrow_table_set_property(n, hs1, h, PROP_TABLE, arrow_table)
  IN  IF r.crash THEN Result(n, hs, 0, "", TRUE)
      ELSE Result(r.nat, r.hnd, h, r.warn, FALSE)

\* g_object_set_property after construction: GObject looks the id up among
\* the installed properties and refuses a property that is not writable or
\* is construct-only; only otherwise it calls the class's set_property
g_object_set_property(n, hs, object, prop_id, value) ==
  IF prop_id # PROP_TABLE THEN Result(n, hs, 0, NoSuchProperty, FALSE)
  ELSE IF "WRITABLE" \notin TableParamFlags
  THEN Result(n, hs, 0, NotWritable, FALSE)
  ELSE IF "CONSTRUCT_ONLY" \in TableParamFlags
  THEN Result(n, hs, 0, ConstructOnly, FALSE)
  ELSE garrow_table_set_property(n, hs, object, prop_id, value)

\* the loop building the vector back to front
RECURSIVE PushFrontAll(_, _, _)
PushFrontAll(hs, arrow_columns, columns) ==
  IF columns = <<>> THEN arrow_columns
  ELSE PushFrontAll(hs, <<object_get_raw(hs, Head(columns))>> \o arrow_columns,
                    Tail(columns))

\* the loop over the GList: push_back of each column's raw pointer
RECURSIVE PushBackAll(_, _, _)
PushBackAll(hs, arrow_columns, columns) ==
  IF columns = <<>> THEN arrow_columns
  ELSE PushBackAll(hs, Append(arrow_columns, object_get_raw(hs, Head(columns))),
                   Tail(columns))

\* arrow::Table::Table(name, schema, columns): the value copies the schema
\* pointer and the vector of column pointers; the row count is that of the
\* first column
arrow_Table(n, name, schema, columns) ==
  LET rows == IF columns = <<>> \/ Head(columns) = Empty THEN 0
              ELSE n[Head(columns)].rows
  IN  Append(AddRefAll(AddRef(n, schema), columns),
             NewNative("table", name, schema, columns, rows))

garrow_table_new(n, hs, name, schema, columns) ==
  LET arrow_columns == PushBackAll(hs, <<>>, columns)
      n1            == AddRefAll(n, arrow_columns)
      arrow_schema  == object_get_raw(hs, schema)
      n2            == AddRef(n1, arrow_schema)
      n3            == arrow_Table(n2, name, arrow_schema, arrow_columns)
      arrow_table   == Len(n3)
      r             == garrow_table_new_raw(n3, hs, arrow_table)
      \* return: arrow_table, the schema temporary and arrow_columns die
      n4            == ReleaseAll(Release(Release(r.nat, arrow_table),
                                          arrow_schema), arrow_columns)
  IN  Result(n4, r.hnd, r.ret, "", r.crash)

\* the accessors dereference the copy garrow_table_get_raw returns; on an
\* empty pointer that is a read through address 0, which faults
garrow_table_get_name(n, hs, table) ==
  LET arrow_table == garrow_table_get_raw(hs, table)
  IN  IF arrow_table = Empty THEN Result(n, hs, 0, "", TRUE)
      ELSE Result(Release(AddRef(n, arrow_table), arrow_table), hs,
                  arrow_table, "", FALSE)

\* get_schema whose copy of the table pointer outlives the call
garrow_table_get_schema_keeps(n, hs, table) ==
  LET arrow_table == garrow_table_get_raw(hs, table)
  IN  IF arrow_table = Empty THEN Result(n, hs, 0, "", TRUE)
      ELSE LET n1           == AddRef(n, arrow_table)
               arrow_schema == n1[arrow_table].schema
               n2           == AddRef(n1, arrow_schema)
               r            == object_new_raw(n2, hs, "schema", arrow_schema)
           IN  Result(Release(r.nat, arrow_schema), r.hnd, r.ret, "", FALSE)

garrow_table_get_schema(n, hs, table) ==
  LET arrow_table == garrow_table_get_raw(hs, table)
  IN  IF arrow_table = Empty THEN Result(n, hs, 0, "", TRUE)
      ELSE LET n1           == AddRef(n, arrow_table)
               arrow_schema == n1[arrow_table].schema
               n2           == AddRef(n1, arrow_schema)
               r            == object_new_raw(n2, hs, "schema", arrow_schema)
           IN  Result(Release(Release(r.nat, arrow_schema), arrow_table),
                      r.hnd, r.ret, "", FALSE)

\* arrow::Table::column(i) is columns_[i], unchecked.  garbage tells what an
\* index past the end does: FALSE, the read faults; TRUE, it yields the
\* zeroed memory behind the vector, an empty pointer.
garrow_table_get_column(n, hs, table, i, garbage) ==
  LET arrow_table == garrow_table_get_raw(hs, table)
  IN  IF arrow_table = Empty THEN Result(n, hs, 0, "", TRUE)
      ELSE IF i >= Len(n[arrow_table].cols) /\ ~garbage
      THEN Result(n, hs, 0, "", TRUE)
      ELSE LET n1           == AddRef(n, arrow_table)
               arrow_column == IF i < Len(n1[arrow_table].cols)
                               THEN n1[arrow_table].cols[i + 1] ELSE Empty
               n2           == AddRef(n1, arrow_column)
               r            == object_new_raw(n2, hs, "column", arrow_column)
           IN  Result(Release(Release(r.nat, arrow_column), arrow_table),
                      r.hnd, r.ret, "", FALSE)

garrow_table_get_n_columns(n, hs, table) ==
  LET arrow_table == garrow_table_get_raw(hs, table)
  IN  IF arrow_table = Empty THEN Result(n, hs, 0, "", TRUE)
      ELSE Result(Release(AddRef(n, arrow_table), arrow_table), hs,
                  Len(n[arrow_table].cols), "", FALSE)

garrow_table_get_n_rows(n, hs, table) ==
  LET arrow_table == garrow_table_get_raw(hs, table)
  IN  IF arrow_table = Empty THEN Result(n, hs, 0, "", TRUE)
      ELSE Result(Release(AddRef(n, arrow_table), arrow_table), hs,
                  n[arrow_table].rows, "", FALSE)

(* ---------------- int8-data-type.cpp ---------------- *)

\* arrow::int8(): the engine builds the type descriptor and returns the
\* shared_ptr owning it
arrow_int8(n) == Append(n, NewNative("datatype", "int8", Empty, <<>>, 0))

\* the constructor whose local pointer is never destroyed
garrow_int8_data_type_new_keeps(n, hs) ==
  LET n1              == arrow_int8(n)
      arrow_data_type == Len(n1)
      r               == object_new_raw(n1, hs, "datatype", arrow_data_type)
  IN  Result(r.nat, r.hnd, r.ret, "", r.crash)

garrow_int8_data_type_new(n, hs) ==
  LET n1              == arrow_int8(n)
      arrow_data_type == Len(n1)
      r               == object_new_raw(n1, hs, "datatype", arrow_data_type)
  IN  Result(Release(r.nat, arrow_data_type), r.hnd, r.ret, "", r.crash)

Init ==
  /\ nat = <<>>
  /\ hnd = <<>>
  /\ ext = <<>>
  /\ log = ""
  /\ crashed = FALSE

(* ---------------- the calls a program makes ---------------- *)

Usable(h) == hnd[h].state \in {"live", "disposed"}
OfKind(kind) == {h \in Handles : hnd[h].kind = kind /\ Usable(h)}
Room(natives, handles) ==
  /\ ~crashed
  /\ Len(nat) + natives <= MaxNatives
  /\ Len(hnd) + handles <= MaxHandles

\* sequences of at most k elements of S
RECURSIVE SeqsUpTo(_, _)
SeqsUpTo(S, k) ==
  IF k = 0 THEN {<<>>}
  ELSE LET shorter == SeqsUpTo(S, k - 1)
       IN  shorter \cup {Append(q, x) : q \in shorter, x \in S}

\* ext grows with nat; a new handle records what construction injected
Grown(e, n) == e \o [k \in 1..(Len(n) - Len(e)) |-> 0]
Made(hs, h, via, from, arg) ==
  [hs EXCEPT ![h].made = hs[h].priv, ![h].via = via, ![h].from = from,
             ![h].arg = arg]

\* a fault ends the process: no object of it remains
Crash ==
  /\ crashed' = TRUE
  /\ log' = ""
  /\ nat' = <<>>
  /\ hnd' = <<>>
  /\ ext' = <<>>

\* a call that returned: r is its Result, hs the handles it leaves
Return(r, hs) ==
  /\ nat' = r.nat
  /\ hnd' = hs
  /\ ext' = Grown(ext, r.nat)
  /\ log' = IF r.warn = "" THEN log ELSE r.warn
  /\ UNCHANGED crashed

\* garrow_schema_new / garrow_column_new: the native value is built, wrapped
\* and the constructor's local pointer dropped
SchemaNew ==
  /\ Room(1, 1)
  /\ LET n1 == Append(nat, NewNative("schema", "", Empty, <<>>, 0))
         r  == object_new_raw(n1, hnd, "schema", Len(n1))
         r2 == [r EXCEPT !.nat = Release(r.nat, Len(n1))]
     IN  Return(r2, Made(r.hnd, r.ret, "schema_new", 0, 0))

ColumnNew ==
  /\ Room(1, 1)
  /\ LET n1 == Append(nat, NewNative("column", "", Empty, <<>>, 0))
         r  == object_new_raw(n1, hnd, "column", Len(n1))
         r2 == [r EXCEPT !.nat = Release(r.nat, Len(n1))]
     IN  Return(r2, Made(r.hnd, r.ret, "column_new", 0, 0))

TableNew ==
  /\ Room(1, 1)
  /\ \E name \in Names, schema \in OfKind("schema"),
        columns \in SeqsUpTo(OfKind("column"), MaxCols) :
       LET r     == garrow_table_new(nat, hnd, name, schema, columns)
           given == [k \in 1..Len(columns) |-> hnd[columns[k]].priv]
       IN  Return(r, [Made(r.hnd, r.ret, "table_new", 0, 0)
                        EXCEPT ![r.ret].input = given])

\* native-side code takes a copy of the stored pointer and keeps it
TableGetRaw ==
  /\ ~crashed
  /\ \E h \in OfKind("table") :
       LET v == garrow_table_get_raw(hnd, h)
       IN  /\ v # Empty => ext[v] < MaxExt
           /\ nat' = AddRef(nat, v)
           /\ ext' = IF v = Empty THEN ext ELSE [ext EXCEPT ![v] = @ + 1]
           /\ UNCHANGED <<hnd, log, crashed>>

\* native-side code drops a copy it kept
ExtRelease ==
  /\ ~crashed
  /\ \E v \in Natives :
       /\ ext[v] > 0
       /\ nat' = Release(nat, v)
       /\ ext' = [ext EXCEPT ![v] = @ - 1]
       /\ UNCHANGED <<hnd, log, crashed>>

\* the pointers native-side code can pass: NULL, the address of an empty
\* shared_ptr, the address of a copy it keeps
Pointers ==
  {NullPtr, Empty} \cup {v \in Natives : nat[v].kind = "table" /\ ext[v] > 0}

TableNewRaw ==
  /\ Room(0, 1)
  /\ \E arrow_table \in Pointers :
       LET r == garrow_table_new_raw(nat, hnd, arrow_table)
       IN  IF r.crash THEN Crash
           ELSE Return(r, Made(r.hnd, r.ret, "new_raw", 0, 0))

\* g_object_new(GARROW_TYPE_TABLE, NULL): GObject sets every construct
\* property, an omitted one to its default, which for a pointer is NULL
TableNewNoProperty ==
  /\ Room(0, 1)
  /\ LET r == garrow_table_new_raw(nat, hnd, NullPtr)
     IN  IF r.crash THEN Crash
         ELSE Return(r, Made(r.hnd, r.ret, "new_raw", 0, 0))

GetName ==
  /\ ~crashed
  /\ \E h \in OfKind("table") :
       LET r == garrow_table_get_name(nat, hnd, h)
       IN  IF r.crash THEN Crash
           ELSE Return(r, [r.hnd EXCEPT ![h].borrowed = r.ret])

GetSchema ==
  /\ Room(0, 1)
  /\ \E h \in OfKind("table") :
       LET r == garrow_table_get_schema(nat, hnd, h)
       IN  IF r.crash THEN Crash
           ELSE Return(r, Made(r.hnd, r.ret, "get_schema", h, 0))

GetColumn ==
  /\ Room(0, 1)
  /\ \E h \in OfKind("table"), i \in 0..MaxCols, garbage \in BOOLEAN :
       LET r == garrow_table_get_column(nat, hnd, h, i, garbage)
       IN  IF r.crash THEN Crash
           ELSE Return(r, Made(r.hnd, r.ret, "get_column", h, i))

GetNColumns ==
  /\ ~crashed
  /\ \E h \in OfKind("table") :
       LET r == garrow_table_get_n_columns(nat, hnd, h)
       IN  IF r.crash THEN Crash
           ELSE Return(r, r.hnd)

GetNRows ==
  /\ ~crashed
  /\ \E h \in OfKind("table") :
       LET r == garrow_table_get_n_rows(nat, hnd, h)
       IN  IF r.crash THEN Crash
           ELSE Return(r, r.hnd)

\* g_object_set(table, "table", pointer, NULL) on a constructed table
GObjectSet ==
  /\ ~crashed
  /\ \E h \in OfKind("table"), value \in Pointers :
       LET r == g_object_set_property(nat, hnd, h, PROP_TABLE, value)
       IN  IF r.crash THEN Crash
           ELSE Return(r, r.hnd)

\* the class's property functions reached with an id other than PROP_TABLE,
\* as when a derived class chains up for an id it does not handle
SetProperty ==
  /\ ~crashed
  /\ \E h \in OfKind("table"), prop_id \in {PROP_0, PROP_OTHER},
        value \in Pointers :
       LET r == garrow_table_set_property(nat, hnd, h, prop_id, value)
       IN  IF r.crash THEN Crash
           ELSE Return(r, r.hnd)

GetProperty ==
  /\ ~crashed
  /\ \E h \in OfKind("table"), prop_id \in {PROP_0, PROP_TABLE, PROP_OTHER} :
       LET r == garrow_table_get_property(nat, hnd, h, prop_id)
       IN  Return(r, r.hnd)

\* the class's dispose, by the class of the object
Dispose(n, hs, h) ==
  IF hs[h].kind = "table" THEN garrow_table_dispose(n, hs, h)
  ELSE object_dispose(n, hs, h)

Disposed(hs, h, state) ==
  [hs EXCEPT ![h].state = state, ![h].runs = @ + 1,
             ![h].released = @ + (IF hnd[h].priv = Empty THEN 0 ELSE 1)]

\* g_object_run_dispose: dispose runs, the object stays allocated.  A second
\* g_object_run_dispose does what the dispose of g_object_unref does then.
RunDisposeOf(kinds) ==
  /\ ~crashed
  /\ \E h \in Handles :
       /\ hnd[h].state = "live" /\ hnd[h].kind \in kinds
       /\ LET r == Dispose(nat, hnd, h)
          IN  Return(r, Disposed(r.hnd, h, "disposed"))

\* g_object_unref of the last reference: dispose runs, then finalize
UnrefOf(kinds) ==
  /\ ~crashed
  /\ \E h \in Handles :
       /\ Usable(h) /\ hnd[h].kind \in kinds
       /\ LET r == Dispose(nat, hnd, h)
          IN  Return(r, Disposed(r.hnd, h, "finalized"))

RunDispose == RunDisposeOf({"table"})
Unref      == UnrefOf({"table", "column", "schema"})

Next ==
  \/ SchemaNew
  \/ ColumnNew
  \/ TableNew
  \/ TableGetRaw
  \/ ExtRelease
  \/ TableNewRaw
  \/ TableNewNoProperty
  \/ GetName
  \/ GetSchema
  \/ GetColumn
  \/ GetNColumns
  \/ GetNRows
  \/ GObjectSet
  \/ SetProperty
  \/ GetProperty
  \/ RunDispose
  \/ Unref

Spec == Init /\ [][Next]_vars

(* ---------------- a program that uses the leaf data types ------------- *)

Int8DataTypeNew ==
  /\ Room(1, 1)
  /\ LET r == garrow_int8_data_type_new(nat, hnd)
     IN  Return(r, Made(r.hnd, r.ret, "int8_new", 0, 0))

DataTypeRunDispose == RunDisposeOf({"datatype"})
DataTypeUnref      == UnrefOf({"datatype"})

NextDataType ==
  \/ Int8DataTypeNew
  \/ DataTypeRunDispose
  \/ DataTypeUnref

SpecDataType == Init /\ [][NextDataType]_vars

(* ---------------- properties ---------------- *)

Tables       == {h \in Handles : hnd[h].kind = "table"}
TableNatives == {v \in Natives : nat[v].kind = "table"}
Holding(v)   == {h \in Handles : Usable(h) /\ hnd[h].priv = v}
Count(s, x)  == Cardinality({k \in 1..Len(s) : s[k] = x})

\* the shared_ptr members of live native values that own v
Members(v) ==
  LET Of(w) == IF nat[w].dtor > 0 THEN 0
               ELSE Count(nat[w].cols, v) + (IF nat[w].schema = v THEN 1 ELSE 0)
      Sum[k \in 0..Len(nat)] == IF k = 0 THEN 0 ELSE Sum[k - 1] + Of(k)
  IN  Sum[Len(nat)]

\* every owner of v: the handles that hold it, the copies native-side code
\* keeps, the native values it is a member of
Owners(v) == Cardinality(Holding(v)) + ext[v] + Members(v)

\* dispose ran on h in this step
DisposeRan(h) == h \in DOMAIN hnd' /\ hnd'[h].runs = hnd[h].runs + 1

\* C1: every run of garrow_table_dispose leaves the stored pointer empty; the
\* run on a handle that holds a native value lowers that value's use count by
\* exactly one, a run on a handle whose pointer is already empty changes no
\* native value; over all runs on one handle one reference is released.
C1_DisposeReleasesOnce ==
  [][\A h \in Tables : DisposeRan(h) =>
       LET v == hnd[h].priv
       IN  /\ hnd'[h].priv = Empty
           /\ v # Empty => nat'[v].count = nat[v].count - 1
           /\ v = Empty => nat' = nat
           /\ hnd'[h].released = IF hnd[h].made = Empty THEN 0 ELSE 1]_vars

\* C1 witness: dispose ran twice on a table handle that was constructed with
\* a native value, and one reference was released
C1_Witness ==
  \E h \in Tables :
    hnd[h].runs = 2 /\ hnd[h].made # Empty /\ hnd[h].released = 1

\* C2: a constructed table handle that has not been torn down holds a
\* non-empty native pointer; a construction without one yields no handle
C2_ConstructedHoldsNative ==
  \A h \in Tables : hnd[h].state = "live" => hnd[h].priv # Empty

\* C3: the use count of a table value is the number of copies native-side
\* code keeps plus the number of handles wrapped around it and not torn down
C3_CountIsHolders ==
  \A v \in TableNatives :
    nat[v].count = ext[v] + Cardinality(Holding(v))

\* C3 witness: one value wrapped by garrow_table_new_raw into two handles,
\* one of them torn down since, the other and a native-side copy remaining
C3_Witness ==
  \E v \in TableNatives, h1, h2 \in Tables :
    /\ hnd[h1].via = "new_raw" /\ hnd[h2].via = "new_raw" /\ h1 # h2
    /\ hnd[h1].made = v /\ hnd[h2].made = v
    /\ hnd[h1].state = "finalized" /\ hnd[h2].state = "live"
    /\ ext[v] = 1 /\ nat[v].count = 2

\* C4: a handle made by garrow_int8_data_type_new is the only owner of its
\* native value (use count 1, not destroyed) until it is torn down; from then
\* on the use count is zero and the value has been destroyed exactly once
C4_NewThenTeardown ==
  \A h \in Handles : hnd[h].via = "int8_new" =>
    LET v == hnd[h].made
    IN  /\ v # Empty
        /\ hnd[h].state = "live" =>
             hnd[h].priv = v /\ nat[v].count = 1 /\ nat[v].dtor = 0
        /\ hnd[h].state # "live" =>
             hnd[h].priv = Empty /\ nat[v].count = 0 /\ nat[v].dtor = 1

\* C4 witness: a data type handle torn down by one dispose, its value destroyed
C4_Witness ==
  \E h \in Handles :
    /\ hnd[h].via = "int8_new" /\ hnd[h].state = "finalized"
    /\ hnd[h].runs = 1 /\ nat[hnd[h].made].dtor = 1

\* C5: on a table made by garrow_table_new from a list of N column handles,
\* garrow_table_get_n_columns returns N and garrow_table_get_column(i), i < N,
\* returns a column handle around the native column the i-th handle of the
\* list held
C5_ColumnsReadBack ==
  \A h \in Tables : (hnd[h].via = "table_new" /\ hnd[h].state = "live") =>
    LET N == Len(hnd[h].input)
        c == garrow_table_get_n_columns(nat, hnd, h)
    IN  /\ ~c.crash /\ c.ret = N
        /\ \A i \in 0..(N - 1), garbage \in BOOLEAN :
             LET r == garrow_table_get_column(nat, hnd, h, i, garbage)
             IN  /\ ~r.crash
                 /\ r.hnd[r.ret].kind = "column"
                 /\ r.hnd[r.ret].priv = hnd[h].input[i + 1]

\* C5 witness: a table made from a list of two different columns
C5_Witness ==
  \E h \in Tables :
    /\ hnd[h].via = "table_new" /\ hnd[h].state = "live"
    /\ Len(hnd[h].input) = 2 /\ hnd[h].input[1] # hnd[h].input[2]

\* C6: g_object_set of "table" on a constructed handle, whatever the pointer,
\* is refused with a warning and changes neither handles nor native values;
\* the stored pointer of a table handle changes in no step of any call but
\* one in which its dispose runs
C6_WriteOnce ==
  [][/\ \A h \in OfKind("table"), value \in Pointers :
          LET r == g_object_set_property(nat, hnd, h, PROP_TABLE, value)
          IN  r.warn = ConstructOnly /\ r.hnd = hnd /\ r.nat = nat /\ ~r.crash
     /\ \A h \in Tables : (h \in DOMAIN hnd' /\ hnd'[h].priv # hnd[h].priv)
                            => DisposeRan(h)]_vars

\* C6 witness: a set of "table" was refused on a handle that still holds the
\* value it was constructed with, after an accessor read it
C6_Witness ==
  /\ log = ConstructOnly
  /\ \E h \in Tables :
       /\ hnd[h].state = "live" /\ hnd[h].made # Empty
       /\ hnd[h].priv = hnd[h].made /\ hnd[h].borrowed = hnd[h].made

\* C7: while a table handle has not been torn down, the native value owning
\* the string garrow_table_get_name returned on it is alive
C7_NameStaysValid ==
  \A h \in Tables : (hnd[h].state = "live" /\ hnd[h].borrowed # Empty) =>
    nat[hnd[h].borrowed].dtor = 0 /\ nat[hnd[h].borrowed].count > 0

\* C7 witness: a name was borrowed through a handle that is now the only
\* owner of the value, another handle around the value having been torn down
C7_Witness ==
  \E h, g \in Tables :
    /\ h # g /\ hnd[h].state = "live" /\ hnd[h].borrowed # Empty
    /\ hnd[g].made = hnd[h].borrowed /\ hnd[g].state = "finalized"
    /\ ext[hnd[h].borrowed] = 0 /\ nat[hnd[h].borrowed].count = 1

\* C8: on every table handle, garrow_table_set_property with an id other than
\* PROP_TABLE, whatever the pointer, and garrow_table_get_property with any
\* id print the invalid-property-id warning, return, and change neither
\* handles nor native values
C8_UnknownIdIsNoOp ==
  \A h \in OfKind("table") :
    /\ \A prop_id \in {PROP_0, PROP_OTHER}, value \in Pointers :
         LET r == garrow_table_set_property(nat, hnd, h, prop_id, value)
         IN  r.warn = InvalidPropertyId /\ r.hnd = hnd /\ r.nat = nat
             /\ ~r.crash
    /\ \A prop_id \in {PROP_0, PROP_TABLE, PROP_OTHER} :
         LET r == garrow_table_get_property(nat, hnd, h, prop_id)
         IN  r.warn = InvalidPropertyId /\ r.hnd = hnd /\ r.nat = nat
             /\ ~r.crash

\* C8 witness: the warning was printed, a handle that holds a native value
\* with a second owner being there to be changed
C8_Witness ==
  /\ log = InvalidPropertyId
  /\ \E h \in Tables :
       /\ hnd[h].state = "live" /\ hnd[h].priv # Empty
       /\ ext[hnd[h].priv] > 0

\* the handle a step of garrow_table_get_schema or _get_column returned
Returned(k) ==
  /\ Len(hnd') = Len(hnd) + 1 /\ k = Len(hnd')
  /\ hnd'[k].via \in {"get_schema", "get_column"}

\* C9: a call of garrow_table_get_schema, or of garrow_table_get_column with
\* an index below the column count, that returns, returns a handle that did
\* not exist before and holds the schema, or a column, of the table; the use
\* count of that nested value is one higher than before the call and the use
\* count of the table value, like every other, is what it was
C9_AccessorReturnsNewHandle ==
  [][\A k \in DOMAIN hnd' : Returned(k) =>
       LET t      == hnd[hnd'[k].from].priv
           nested == hnd'[k].priv
       IN  /\ k \notin Handles
           /\ hnd'[k].state = "live"
           /\ \A h \in Handles : hnd'[h] = hnd[h]
           /\ t # Empty /\ nat'[t] = nat[t]
           /\ hnd'[k].via = "get_schema" => nested = nat[t].schema
           /\ (hnd'[k].via = "get_column" /\ hnd'[k].arg < Len(nat[t].cols)) =>
                nested = nat[t].cols[hnd'[k].arg + 1]
           /\ nested # Empty =>
                /\ nat'[nested].count = nat[nested].count + 1
                /\ \A v \in Natives \ {nested} : nat'[v] = nat[v]]_vars

\* C9 witness: a column handle returned by garrow_table_get_column, owning
\* the column next to the table that owns it
C9_Witness ==
  \E k \in Handles :
    /\ hnd[k].via = "get_column" /\ hnd[k].state = "live"
    /\ hnd[k].priv # Empty /\ nat[hnd[k].priv].count >= 2
    /\ hnd[hnd[k].from].state = "live"

\* C10: a native value is destroyed at most once; it has been destroyed
\* exactly when it has no owner left, so never while a handle that has not
\* been torn down holds it
C10_DestroyedWithLastHolder ==
  \A v \in Natives :
    /\ nat[v].dtor = (IF Owners(v) = 0 THEN 1 ELSE 0)
    /\ \A h \in Holding(v) : nat[v].dtor = 0

\* C10 witness: a table value that two handles wrapped, destroyed after both
\* were torn down
C10_Witness ==
  \E v \in TableNatives, h, g \in Tables :
    /\ h # g /\ hnd[h].made = v /\ hnd[g].made = v
    /\ hnd[h].state = "finalized" /\ hnd[g].state = "finalized"
    /\ nat[v].dtor = 1
====
